---------------------------- MODULE Spec2Model ----------------------------
(***************************************************************************)
(* A model of lsp_devtools/handlers/__init__.py: the maybe_json converter, *)
(* the LspMessage container (construction through from_rpc, attribute      *)
(* assignment, the three classification properties) and LspHandler.emit.   *)
(*                                                                         *)
(* Python text is a sequence of one-character strings; Python values are   *)
(* records [t |-> type tag, v |-> payload].                                *)
(***************************************************************************)
EXTENDS Integers, Sequences, FiniteSets, TLC

(***************************************************************************)
(* Bounds of the model.                                                    *)
(***************************************************************************)
\* longest text enumerated as a raw params / result / error value
MaxLen == 4
\* most log records delivered to one handler
MaxRecords == 2
\* most attribute assignments made on one message
MaxAssign == 1

(***************************************************************************)
(* Python values.                                                          *)
(***************************************************************************)
Chars(s) == [i \in 1..Len(s) |-> SubSeq(s, i, i)]

None == [t |-> "none", v |-> 0]
\* "the key is not in the mapping": what Mapping.get(key, None) turns into None
MISSING == [t |-> "missing", v |-> 0]
PyStr(cs) == [t |-> "str", v |-> cs]
PyInt(n) == [t |-> "int", v |-> n]
PyBool(b) == [t |-> "bool", v |-> b]
PyList(xs) == [t |-> "list", v |-> xs]
\* a dict with text keys: a function from keys (character sequences) to values
PyDict(f) == [t |-> "dict", v |-> f]
IsStr(x) == x.t = "str"

(***************************************************************************)
(* json.loads, as maybe_json calls it (line 21): Python's json.decoder     *)
(* scanner on a str.  Restrictions: numbers are integers, and the          *)
(* constants NaN / Infinity are left out (their characters are outside     *)
(* Alphabet); a \uXXXX escape decodes to the token "U+XXXX".               *)
(***************************************************************************)
WHITESPACE == {" ", "\t", "\n", "\r"}
ControlChars == {"\t", "\n", "\r", "\f"}
DigitChars == <<"0", "1", "2", "3", "4", "5", "6", "7", "8", "9">>
IsDigit(c) == \E d \in 1..Len(DigitChars) : DigitChars[d] = c
DigitVal(c) == (CHOOSE d \in 1..Len(DigitChars) : DigitChars[d] = c) - 1
HexChars == {"a", "b", "c", "d", "e", "f", "A", "B", "C", "D", "E", "F"}
IsHex(c) == IsDigit(c) \/ c \in HexChars
\* json.decoder.BACKSLASH
BACKSLASH == [c \in {"\"", "\\", "/", "b", "f", "n", "r", "t"} |->
                CASE c = "b" -> "U+0008"
                  [] c = "f" -> "\f"
                  [] c = "n" -> "\n"
                  [] c = "r" -> "\r"
                  [] c = "t" -> "\t"
                  [] OTHER -> c]

DecodeFail == [ok |-> FALSE, val |-> None, end |-> 0]
Decoded(val, end) == [ok |-> TRUE, val |-> val, end |-> end]

RECURSIVE SkipWs(_, _)
SkipWs(s, i) ==
    IF i <= Len(s) /\ s[i] \in WHITESPACE THEN SkipWs(s, i + 1) ELSE i

StartsWith(s, i, lit) ==
    /\ i + Len(lit) - 1 <= Len(s)
    /\ \A k \in 1..Len(lit) : s[i + k - 1] = lit[k]

\* py_scanstring, from the character after the opening quote
RECURSIVE ScanString(_, _, _)
ScanString(s, i, acc) ==
    IF i > Len(s) THEN DecodeFail
    ELSE IF s[i] = "\"" THEN Decoded(PyStr(acc), i + 1)
    ELSE IF s[i] \in ControlChars THEN DecodeFail
    ELSE IF s[i] # "\\" THEN ScanString(s, i + 1, Append(acc, s[i]))
    ELSE IF i + 1 > Len(s) THEN DecodeFail
    ELSE IF s[i + 1] \in DOMAIN BACKSLASH
        THEN ScanString(s, i + 2, Append(acc, BACKSLASH[s[i + 1]]))
    ELSE IF /\ s[i + 1] = "u"
            /\ i + 5 <= Len(s)
            /\ \A k \in 2..5 : IsHex(s[i + k])
        THEN ScanString(s, i + 6,
                 Append(acc, "U+" \o s[i + 2] \o s[i + 3] \o s[i + 4] \o s[i + 5]))
    ELSE DecodeFail

\* the digits of NUMBER_RE's integer part, from position i
RECURSIVE ScanDigits(_, _, _)
ScanDigits(s, i, n) ==
    IF i <= Len(s) /\ IsDigit(s[i])
        THEN ScanDigits(s, i + 1, 10 * n + DigitVal(s[i]))
        ELSE [n |-> n, end |-> i]

\* NUMBER_RE: -?(0|[1-9][0-9]*)
ScanNumber(s, i) ==
    LET neg == i <= Len(s) /\ s[i] = "-"
        j == IF neg THEN i + 1 ELSE i
    IN  IF j > Len(s) \/ ~IsDigit(s[j]) THEN DecodeFail
        ELSE IF s[j] = "0" THEN Decoded(PyInt(0), j + 1)
        ELSE LET d == ScanDigits(s, j, 0)
             IN  Decoded(PyInt(IF neg THEN 0 - d.n ELSE d.n), d.end)

RECURSIVE ScanOnce(_, _), ScanArray(_, _, _), ScanObject(_, _, _)
\* scanner.py_make_scanner._scan_once
ScanOnce(s, i) ==
    IF i > Len(s) THEN DecodeFail
    ELSE IF s[i] = "\"" THEN ScanString(s, i + 1, <<>>)
    ELSE IF s[i] = "{" THEN
        LET j == SkipWs(s, i + 1)
        IN  IF j <= Len(s) /\ s[j] = "}" THEN Decoded(PyDict(<<>>), j + 1)
            ELSE ScanObject(s, j, <<>>)
    ELSE IF s[i] = "[" THEN
        LET j == SkipWs(s, i + 1)
        IN  IF j <= Len(s) /\ s[j] = "]" THEN Decoded(PyList(<<>>), j + 1)
            ELSE ScanArray(s, j, <<>>)
    ELSE IF StartsWith(s, i, Chars("null")) THEN Decoded(None, i + 4)
    ELSE IF StartsWith(s, i, Chars("true")) THEN Decoded(PyBool(TRUE), i + 4)
    ELSE IF StartsWith(s, i, Chars("false")) THEN Decoded(PyBool(FALSE), i + 5)
    ELSE ScanNumber(s, i)

\* decoder.JSONArray's loop: a value, then "]" or "," and the next value
ScanArray(s, i, acc) ==
    LET r == ScanOnce(s, i)
    IN  IF ~r.ok THEN DecodeFail
        ELSE LET j == SkipWs(s, r.end)
             IN  IF j > Len(s) THEN DecodeFail
                 ELSE IF s[j] = "]" THEN Decoded(PyList(Append(acc, r.val)), j + 1)
                 ELSE IF s[j] = ","
                     THEN ScanArray(s, SkipWs(s, j + 1), Append(acc, r.val))
                 ELSE DecodeFail

\* decoder.JSONObject's loop: "key" : value, then "}" or "," and the next pair
ScanObject(s, i, acc) ==
    IF i > Len(s) \/ s[i] # "\"" THEN DecodeFail
    ELSE LET k == ScanString(s, i + 1, <<>>)
         IN  IF ~k.ok THEN DecodeFail
             ELSE LET c == SkipWs(s, k.end)
                  IN  IF c > Len(s) \/ s[c] # ":" THEN DecodeFail
                      ELSE LET r == ScanOnce(s, SkipWs(s, c + 1))
                           IN  IF ~r.ok THEN DecodeFail
                               ELSE LET j == SkipWs(s, r.end)
                                        \* a repeated key keeps its last value
                                        d == [x \in (DOMAIN acc) \cup {k.val.v} |->
                                                IF x = k.val.v THEN r.val ELSE acc[x]]
                                    IN  IF j > Len(s) THEN DecodeFail
                                        ELSE IF s[j] = "}" THEN Decoded(PyDict(d), j + 1)
                                        ELSE IF s[j] = ","
                                            THEN ScanObject(s, SkipWs(s, j + 1), d)
                                        ELSE DecodeFail

\* JSONDecoder.decode on text: one value between optional whitespace, and
\* nothing after it ("Extra data"); ok = FALSE stands for JSONDecodeError
json_decode(s) ==
    LET r == ScanOnce(s, SkipWs(s, 1))
    IN  IF r.ok /\ SkipWs(s, r.end) = Len(s) + 1 THEN r ELSE DecodeFail

\* json.loads(value): TypeError for anything that is not text
json_loads(value) ==
    IF IsStr(value) THEN json_decode(value.v) ELSE DecodeFail

\* a converter that forgets to decode
MaybeJsonIdentity(value) == value

\* a fallback that loses the raw value
MaybeJsonDropsRaw(value) ==
    LET r == json_loads(value) IN IF r.ok THEN r.val ELSE None

\* a converter that decodes the first JSON value of a text and ignores the rest
MaybeJsonPrefix(value) ==
    LET r == IF IsStr(value) THEN ScanOnce(value.v, SkipWs(value.v, 1)) ELSE DecodeFail
    IN  IF r.ok THEN r.val ELSE value

\* maybe_json: the decoded value, or the value itself when json.loads raises
maybe_json(value) ==
    LET r == json_loads(value) IN IF r.ok THEN r.val ELSE value


(***************************************************************************)
(* json.dumps with its defaults, used to re-encode a message's fields:     *)
(* ", " and ": " separators, text quoted and escaped.                      *)
(***************************************************************************)
RECURSIVE IntToChars(_)
IntToChars(n) ==
    IF n < 0 THEN <<"-">> \o IntToChars(0 - n)
    ELSE IF n < 10 THEN <<DigitChars[n + 1]>>
    ELSE Append(IntToChars(n \div 10), DigitChars[(n % 10) + 1])

\* encoder.ESCAPE_DCT on one character
EscapeChar(c) ==
    CASE c = "\"" -> <<"\\", "\"">>
      [] c = "\\" -> <<"\\", "\\">>
      [] c = "\n" -> <<"\\", "n">>
      [] c = "\r" -> <<"\\", "r">>
      [] c = "\t" -> <<"\\", "t">>
      [] c = "\f" -> <<"\\", "f">>
      [] Len(c) > 1 -> <<"\\", "u">> \o SubSeq(Chars(c), 3, 6)
      [] OTHER -> <<c>>

RECURSIVE EscapeText(_)
EscapeText(cs) ==
    IF cs = <<>> THEN <<>> ELSE EscapeChar(Head(cs)) \o EscapeText(Tail(cs))

QuoteText(cs) == <<"\"">> \o EscapeText(cs) \o <<"\"">>

RECURSIVE SetToSeq(_)
SetToSeq(S) ==
    IF S = {} THEN <<>>
    ELSE LET x == CHOOSE y \in S : TRUE IN <<x>> \o SetToSeq(S \ {x})

RECURSIVE json_dumps(_), DumpItems(_), DumpPairs(_, _)
json_dumps(value) ==
    CASE value.t = "none" -> Chars("null")
      [] value.t = "bool" -> IF value.v THEN Chars("true") ELSE Chars("false")
      [] value.t = "int" -> IntToChars(value.v)
      [] value.t = "str" -> QuoteText(value.v)
      [] value.t = "list" -> <<"[">> \o DumpItems(value.v) \o <<"]">>
      [] value.t = "dict" ->
            <<"{">> \o DumpPairs(value.v, SetToSeq(DOMAIN value.v)) \o <<"}">>

DumpItems(xs) ==
    IF xs = <<>> THEN <<>>
    ELSE IF Len(xs) = 1 THEN json_dumps(xs[1])
    ELSE json_dumps(Head(xs)) \o <<",", " ">> \o DumpItems(Tail(xs))

DumpPairs(d, keys) ==
    IF keys = <<>> THEN <<>>
    ELSE LET pair == QuoteText(Head(keys)) \o <<":", " ">> \o json_dumps(d[Head(keys)])
         IN  IF Len(keys) = 1 THEN pair
             ELSE pair \o <<",", " ">> \o DumpPairs(d, Tail(keys))

(***************************************************************************)
(* datetime.fromisoformat, as from_rpc calls it (line 62), on the formats  *)
(* datetime.isoformat writes: YYYY-MM-DD, then optionally one separator    *)
(* character and HH[:MM[:SS[.fff[fff]]]].  UTC offsets are left out.       *)
(***************************************************************************)
AllDigits(s, lo, hi) == \A k \in lo..hi : IsDigit(s[k])

RECURSIVE DigitsValue(_, _, _)
DigitsValue(s, lo, hi) ==
    IF lo > hi THEN 0 ELSE 10 * DigitsValue(s, lo, hi - 1) + DigitVal(s[hi])

IsLeap(y) == (y % 4 = 0) /\ ((y % 100 # 0) \/ (y % 400 = 0))
DaysInMonth(y, m) ==
    IF m = 2 THEN (IF IsLeap(y) THEN 29 ELSE 28)
    ELSE IF m \in {4, 6, 9, 11} THEN 30 ELSE 31

PyDatetime(y, mo, d, h, mi, s, us) ==
    [t |-> "datetime",
     v |-> [year |-> y, month |-> mo, day |-> d,
            hour |-> h, minute |-> mi, second |-> s, microsecond |-> us]]

IsoFail(exc) == [ok |-> FALSE, exc |-> exc, val |-> None]

\* the time part, s[lo..Len(s)]
IsoTimeShape(s, lo) ==
    LET n == Len(s) - lo + 1
    IN  /\ n \in {2, 5, 8, 12, 15}
        /\ AllDigits(s, lo, lo + 1)
        /\ n >= 5 => (s[lo + 2] = ":" /\ AllDigits(s, lo + 3, lo + 4))
        /\ n >= 8 => (s[lo + 5] = ":" /\ AllDigits(s, lo + 6, lo + 7))
        /\ n >= 12 => (s[lo + 8] = "." /\ AllDigits(s, lo + 9, Len(s)))

\* a date-time that answers every text: the parse error is swallowed
FromIsoFormatLenient(text) ==
    [ok |-> TRUE, exc |-> "none", val |-> PyDatetime(1, 1, 1, 0, 0, 0, 0)]

fromisoformat(text) ==
    IF ~IsStr(text) THEN IsoFail("TypeError")
    ELSE LET s == text.v
             dateShape == /\ Len(s) >= 10
                          /\ AllDigits(s, 1, 4) /\ s[5] = "-"
                          /\ AllDigits(s, 6, 7) /\ s[8] = "-"
                          /\ AllDigits(s, 9, 10)
         IN  IF ~dateShape THEN IsoFail("ValueError")
             ELSE LET y == DigitsValue(s, 1, 4)
                      mo == DigitsValue(s, 6, 7)
                      d == DigitsValue(s, 9, 10)
                      n == Len(s) - 11
                      h == IF n >= 2 THEN DigitsValue(s, 12, 13) ELSE 0
                      mi == IF n >= 5 THEN DigitsValue(s, 15, 16) ELSE 0
                      sec == IF n >= 8 THEN DigitsValue(s, 18, 19) ELSE 0
                      us == IF n = 12 THEN 1000 * DigitsValue(s, 21, 23)
                            ELSE IF n = 15 THEN DigitsValue(s, 21, 26) ELSE 0
                  IN  IF /\ y >= 1 /\ mo \in 1..12 /\ d \in 1..DaysInMonth(y, mo)
                         /\ (Len(s) = 10 \/ (Len(s) > 11 /\ IsoTimeShape(s, 12)))
                         /\ h < 24 /\ mi < 60 /\ sec < 60
                      THEN [ok |-> TRUE, exc |-> "none",
                            val |-> PyDatetime(y, mo, d, h, mi, sec, us)]
                      ELSE IsoFail("ValueError")

(***************************************************************************)
(* LspMessage (lines 26-82).                                               *)
(***************************************************************************)
RpcKeys == {"id", "method", "params", "result", "error"}
ConvertedFields == {"params", "result", "error"}
Fields == {"session", "timestamp", "source"} \cup RpcKeys

\* message.get(key, None)
Get(message, key) == IF message[key] = MISSING THEN None ELSE message[key]

\* the attrs-generated __init__: params, result and error pass their converter
LspMessage(session, timestamp, source, id, method, params, result, error) ==
    [session |-> session, timestamp |-> timestamp, source |-> source,
     id |-> id, method |-> method,
     params |-> maybe_json(params),
     result |-> maybe_json(result),
     error |-> maybe_json(error)]

NoMsg == [t |-> "nomsg"]

\* LspMessage.from_rpc: the message, or the exception fromisoformat raises
from_rpc(session, timestamp, source, message) ==
    LET ts == fromisoformat(timestamp)
    IN  IF ~ts.ok THEN [exc |-> ts.exc, msg |-> NoMsg]
        ELSE [exc |-> "none",
              msg |-> LspMessage(session, ts.val, source,
                                 Get(message, "id"), Get(message, "method"),
                                 Get(message, "params"), Get(message, "result"),
                                 Get(message, "error"))]

\* a response test that wants both result and error
IsResponseBoth(m) == m.id # None /\ (m.result # None /\ m.error # None)

is_request(m) == m.id # None /\ m.params # None
is_response(m) == m.id # None /\ (m.result # None \/ m.error # None)
is_notification(m) == m.id = None /\ m.params # None

\* attribute assignment without the converters
SetAttrRaw(m, f, value) == [m EXCEPT ![f] = value]

\* the attrs-generated __setattr__ of a class made by attrs.define: the
\* field's converter runs on every assignment
setattr(m, f, value) ==
    [m EXCEPT ![f] = IF f \in ConvertedFields THEN maybe_json(value) ELSE value]

(***************************************************************************)
(* LspHandler (lines 85-108).                                              *)
(***************************************************************************)
ExtraKeys == {"Message-Source", "Message-Session", "Message-Timestamp"}

\* a handler that delivers the newest message first
HandleMessageFirst(log, message) == <<message>> \o log

\* handle_message of a subclass that records what it is given, in call order
handle_message(log, message) == Append(log, message)

\* emit from line 98 on, for a record whose args is a dict: the exception
\* raised, the attributes of record.__dict__ read, and the message built
EmitDict(record) ==
    IF "Message-Source" \notin DOMAIN record.d
        THEN [exc |-> "KeyError", reads |-> {"Message-Source"}, msg |-> NoMsg]
    ELSE IF "Message-Session" \notin DOMAIN record.d
        THEN [exc |-> "KeyError", reads |-> {"Message-Source", "Message-Session"},
              msg |-> NoMsg]
    ELSE IF "Message-Timestamp" \notin DOMAIN record.d
        THEN [exc |-> "KeyError", reads |-> ExtraKeys, msg |-> NoMsg]
    ELSE LET r == from_rpc(record.d["Message-Session"],
                           record.d["Message-Timestamp"],
                           record.d["Message-Source"],
                           record.args.v)
         IN  [exc |-> r.exc, reads |-> ExtraKeys, msg |-> r.msg]

\* an emit that reads the record's source before it tests args
EmitReadsFirst(record) ==
    IF "Message-Source" \notin DOMAIN record.d
        THEN [exc |-> "KeyError", reads |-> {"Message-Source"}, msg |-> NoMsg]
    ELSE IF record.args.t # "dict"
        THEN [exc |-> "none", reads |-> {"Message-Source"}, msg |-> NoMsg]
    ELSE EmitDict(record)

\* emit up to the call of handle_message: lines 95-96 return at once for a
\* record whose args is not a dict
EmitBuild(record) ==
    IF record.args.t # "dict"
        THEN [exc |-> "none", reads |-> {}, msg |-> NoMsg]
    ELSE EmitDict(record)

(***************************************************************************)
(* Inputs.                                                                 *)
(***************************************************************************)
Alphabet == {"n", "u", "l", "1", "\"", "[", "]", " "}
Texts(n) == UNION {[1..k -> Alphabet] : k \in 0..n}

\* already-structured values
StructuredValues ==
    {None, PyInt(1), PyList(<<PyInt(1), PyStr(Chars("1"))>>), PyDict(<<>>),
     PyDict([k \in {Chars("a\"")} |-> PyList(<<None>>)])}

\* every raw value one field is given: absent, structured, or any text
RawValues == {MISSING} \cup StructuredValues \cup {PyStr(cs) : cs \in Texts(MaxLen)}

ValidTimestamp == PyStr(Chars("2024-02-29T03:04:05.123456"))
TimestampTexts ==
    {ValidTimestamp, PyStr(Chars("2024-01-02")),
     PyStr(Chars("2023-02-29")), PyStr(Chars("now"))}

Session1 == PyStr(Chars("s1"))
Client == PyStr(Chars("client"))
Server == PyStr(Chars("server"))
Id1 == PyStr(Chars("1"))
Method1 == PyStr(Chars("initialize"))

NoFields == [k \in RpcKeys |-> MISSING]

\* from_rpc calls whose mapping holds one of params / result / error, with
\* any raw value, beside an id
ConvCalls ==
    {[session |-> Session1, timestamp |-> ValidTimestamp, source |-> Client,
      message |-> [NoFields EXCEPT !["id"] = id, ![f] = value]] :
        id \in {Id1}, f \in ConvertedFields, value \in RawValues}

ParamSamples ==
    {MISSING, None, PyDict(<<>>), PyStr(Chars("{}")), PyStr(Chars("null")),
     PyStr(Chars("\"1\"")), PyStr(Chars("nul"))}
ResultSamples == {MISSING, PyStr(Chars("null")), PyDict(<<>>)}

\* from_rpc calls whose mapping combines the five keys
MsgCalls ==
    {[session |-> Session1, timestamp |-> ts, source |-> Client,
      message |-> [id |-> id, method |-> method, params |-> params,
                   result |-> result, error |-> error]] :
        ts \in {ValidTimestamp, PyStr(Chars("now"))},
        id \in {MISSING, None, Id1}, method \in {MISSING, Method1},
        params \in ParamSamples, result \in ResultSamples, error \in ResultSamples}

\* what is assigned to a field of a message
AssignValues(m, f) ==
    IF f \in ConvertedFields \cup {"id"}
        THEN {m[f], None, PyStr(Chars("null")), PyStr(Chars("2"))}
        ELSE {m[f], PyStr(Chars("other"))}

RpcSamples ==
    {NoFields,
     [NoFields EXCEPT !["id"] = Id1, !["method"] = Method1,
                      !["params"] = PyStr(Chars("{}"))],
     [NoFields EXCEPT !["id"] = Id1, !["result"] = PyDict(<<>>)],
     [NoFields EXCEPT !["method"] = Method1, !["params"] = PyList(<<PyInt(1)>>)],
     [NoFields EXCEPT !["id"] = Id1, !["error"] = PyStr(Chars("nul"))]}

\* record.args: a dict of JSON-RPC fields, or the tuple / None of a plain record
RecordArgs ==
    {[t |-> "dict", v |-> m] : m \in RpcSamples}
        \cup {[t |-> "tuple", v |-> <<>>], None}

\* record.__dict__: the three Message-* attributes, or none of them
RecordDicts ==
    {[k \in {} |-> None]} \cup
    {[k \in ExtraKeys |->
        CASE k = "Message-Source" -> source
          [] k = "Message-Session" -> Session1
          [] k = "Message-Timestamp" -> ts] :
        source \in {Client, Server}, ts \in TimestampTexts}

LogRecords == [args : RecordArgs, d : RecordDicts]

(***************************************************************************)
(* State.                                                                  *)
(***************************************************************************)
VARIABLES
    call,       \* the arguments of the from_rpc call under study
    msg,        \* the message it built, or NoMsg
    exc,        \* the exception it raised, or "none"
    msg2,       \* the message a second from_rpc call built, or NoMsg
    op,         \* the last operation, its field and its value
    nassign,    \* attribute assignments made on msg
    delivered,  \* the records given to emit, in order
    handled,    \* the messages handle_message was called with, in order
    emitExc,    \* what the last emit raised, or "none"
    reads       \* the record attributes the last emit read

vars == <<call, msg, exc, msg2, op, nassign, delivered, handled, emitExc, reads>>
msgVars == <<call, msg, exc, msg2, op, nassign>>
handlerVars == <<delivered, handled, emitExc, reads>>

NoCall == [t |-> "nocall"]
Op(name, f, value) == [name |-> name, field |-> f, value |-> value]
NoOp == Op("init", "", None)

InitRest ==
    /\ msg = NoMsg /\ exc = "none" /\ msg2 = NoMsg /\ op = NoOp /\ nassign = 0
    /\ delivered = <<>> /\ handled = <<>> /\ emitExc = "none" /\ reads = {}

Init == call = NoCall /\ InitRest
InitConv == call \in ConvCalls /\ InitRest
InitMsg == call \in MsgCalls /\ InitRest

(***************************************************************************)
(* Operations on one message.                                              *)
(***************************************************************************)
\* m = LspMessage.from_rpc(session, timestamp, source, message)
Construct ==
    /\ call # NoCall /\ op = NoOp
    /\ LET r == from_rpc(call.session, call.timestamp, call.source, call.message)
       IN  msg' = r.msg /\ exc' = r.exc
    /\ op' = Op("from_rpc", "", None)
    /\ UNCHANGED <<call, msg2, nassign>> /\ UNCHANGED handlerVars

\* m.f = value
SetAttr(f, value) ==
    /\ msg # NoMsg /\ nassign < MaxAssign
    /\ msg' = setattr(msg, f, value)
    /\ op' = Op("setattr", f, value)
    /\ nassign' = nassign + 1
    /\ UNCHANGED <<call, exc, msg2>> /\ UNCHANGED handlerVars

Assign ==
    /\ msg # NoMsg
    /\ \E f \in Fields : \E value \in AssignValues(msg, f) : SetAttr(f, value)

\* m.f = m.f, on the message as from_rpc built it
Reassign ==
    /\ msg # NoMsg /\ op.name = "from_rpc"
    /\ \E f \in ConvertedFields : SetAttr(f, msg[f])

\* reading m.is_request, m.is_response or m.is_notification
Classify ==
    /\ msg # NoMsg
    /\ \E p \in {"is_request", "is_response", "is_notification"} :
         op' = Op(p, "",
                  PyBool(CASE p = "is_request" -> is_request(msg)
                           [] p = "is_response" -> is_response(msg)
                           [] p = "is_notification" -> is_notification(msg)))
    /\ UNCHANGED <<call, msg, exc, msg2, nassign>> /\ UNCHANGED handlerVars

\* the second from_rpc call, on m's own and unmutated message
SecondCall(name, message) ==
    /\ msg # NoMsg /\ op.name = "from_rpc"
    /\ msg2' = from_rpc(call.session, call.timestamp, call.source, message).msg
    /\ op' = Op(name, "", None)
    /\ UNCHANGED <<call, msg, exc, nassign>> /\ UNCHANGED handlerVars

\* from_rpc on m's fields with params, result and error serialised to JSON text
Reparse ==
    SecondCall("reparse",
               [id |-> msg.id, method |-> msg.method,
                params |-> PyStr(json_dumps(msg.params)),
                result |-> PyStr(json_dumps(msg.result)),
                error |-> PyStr(json_dumps(msg.error))])

\* from_rpc on m's fields as they are
Refeed ==
    SecondCall("refeed",
               [id |-> msg.id, method |-> msg.method, params |-> msg.params,
                result |-> msg.result, error |-> msg.error])

(***************************************************************************)
(* LspHandler.emit(record).                                                *)
(***************************************************************************)
Emit(record) ==
    /\ call = NoCall /\ Len(delivered) < MaxRecords
    /\ delivered' = Append(delivered, record)
    /\ LET r == EmitBuild(record)
       IN  /\ emitExc' = r.exc
           /\ reads' = r.reads
           /\ handled' = IF r.msg # NoMsg THEN handle_message(handled, r.msg)
                         ELSE handled
    /\ UNCHANGED msgVars

Deliver == \E record \in LogRecords : Emit(record)

Next == Deliver
NextConv == Construct \/ Reassign \/ Reparse \/ Refeed
NextMsg == Construct \/ Assign \/ Classify

\* the handler fed log records
Spec == Init /\ [][Next]_vars
\* one from_rpc call with one converted field, then the conversion run again
SpecConv == InitConv /\ [][NextConv]_vars
\* one from_rpc call, then the operations a message offers
SpecMsg == InitMsg /\ [][NextMsg]_vars

(***************************************************************************)
(* Properties.                                                             *)
(***************************************************************************)
Present(x) == x # None
Last(seq) == seq[Len(seq)]
Classification(m) ==
    [request |-> is_request(m), response |-> is_response(m),
     notification |-> is_notification(m)]
\* a text and the value its JSON stands for, written out by hand
JsonExamples ==
    {<<Chars("null"), None>>, <<Chars("[1]"), PyList(<<PyInt(1)>>)>>,
     <<Chars("\"1\""), PyStr(Chars("1"))>>, <<Chars(" 11 "), PyInt(11)>>,
     <<Chars("[]"), PyList(<<>>)>>, <<Chars("\"\""), PyStr(<<>>)>>,
     <<Chars("[\"]\""), PyStr(Chars("[\"]\""))>>, <<Chars("nul"), PyStr(Chars("nul"))>>,
     <<Chars("1 1"), PyStr(Chars("1 1"))>>, <<Chars(""), PyStr(<<>>)>>,
     <<Chars("{}"), PyDict(<<>>)>>}
ExamplesHold(raw, value) ==
    \A e \in JsonExamples : raw = PyStr(e[1]) => value = e[2]
BadTimestamps == {PyStr(Chars("2023-02-29")), PyStr(Chars("now"))}

\* C1: on every constructed message the three properties read as the table
\* says: is_request iff id and params are present, is_response iff id and one
\* of result / error are present, is_notification iff id is absent and
\* params is present; with all four absent, all three are false.
C1_ClassificationTable ==
    msg # NoMsg =>
        /\ is_request(msg) = (Present(msg.id) /\ Present(msg.params))
        /\ is_response(msg) =
             (Present(msg.id) /\ (Present(msg.result) \/ Present(msg.error)))
        /\ is_notification(msg) = (~Present(msg.id) /\ Present(msg.params))
        /\ op.name = "is_request" =>
             op.value = PyBool(Present(msg.id) /\ Present(msg.params))
        /\ op.name = "is_response" =>
             op.value = PyBool(Present(msg.id)
                               /\ (Present(msg.result) \/ Present(msg.error)))
        /\ op.name = "is_notification" =>
             op.value = PyBool(~Present(msg.id) /\ Present(msg.params))
        /\ (\A f \in {"id", "params", "result", "error"} : ~Present(msg[f])) =>
             Classification(msg) =
                [request |-> FALSE, response |-> FALSE, notification |-> FALSE]

C1_Witness ==
    /\ msg # NoMsg
    /\ \A f \in {"id", "params", "result", "error"} : msg[f] = None
    /\ op = Op("is_notification", "", PyBool(FALSE))

\* C2 (as claimed): a mapping with the keys id and params (params structured
\* or JSON text) and without result and error gives a message that is a
\* request and nothing else.
C2_RequestOnly ==
    (/\ op.name = "from_rpc" /\ msg # NoMsg
     /\ call.message.id \notin {MISSING, None}
     /\ LET p == call.message.params
        IN  p.t \in {"dict", "list"} \/ (IsStr(p) /\ json_loads(p).ok)
     /\ call.message.result = MISSING /\ call.message.error = MISSING)
    => Classification(msg) =
          [request |-> TRUE, response |-> FALSE, notification |-> FALSE]

\* C3: a params / result / error value that is text holding valid JSON is
\* stored by from_rpc as the decoded structure, never as the text.
C3_JsonTextDecoded ==
    (msg # NoMsg /\ nassign = 0) =>
        \A f \in ConvertedFields :
            LET raw == call.message[f]
            IN  /\ (IsStr(raw) /\ json_loads(raw).ok) =>
                     (msg[f] = json_loads(raw).val /\ msg[f] # raw)
                /\ ExamplesHold(raw, msg[f])

C3_Witness ==
    /\ op.name = "from_rpc"
    /\ call.message.result = PyStr(Chars("[1]"))
    /\ msg.result = PyList(<<PyInt(1)>>)

\* C4: a raw value that does not decode (text that is not JSON, or a value
\* that is not text) never makes from_rpc fail, and is stored unchanged.
C4_LenientFallback ==
    op # NoOp =>
        /\ exc = "none" /\ msg # NoMsg
        /\ nassign = 0 =>
             \A f \in ConvertedFields :
                LET raw == call.message[f]
                IN  /\ (raw # MISSING /\ ~(IsStr(raw) /\ json_loads(raw).ok)) =>
                         msg[f] = raw
                    /\ raw.t \in {"dict", "list", "int", "none"} => msg[f] = raw
                    /\ ExamplesHold(raw, msg[f])

C4_Witness ==
    /\ op.name = "from_rpc" /\ exc = "none"
    /\ call.message.error = PyStr(Chars("nul"))
    /\ msg.error = PyStr(Chars("nul"))

\* C5: serialising the params, result and error of a message built by
\* from_rpc to JSON text and calling from_rpc again, with everything else the
\* same, gives an equal message.
C5_ReparseEqual == op.name = "reparse" => (msg2 # NoMsg /\ msg2 = msg)

C5_Witness ==
    /\ op.name = "reparse" /\ msg2 = msg
    /\ IsStr(msg.params) /\ json_loads(msg.params).ok

C7_BadTimestampPropagates ==
    [][(/\ Len(delivered') = Len(delivered) + 1
        /\ Last(delivered').args.t = "dict"
        /\ ExtraKeys \subseteq DOMAIN Last(delivered').d
        /\ Last(delivered').d["Message-Timestamp"] \in BadTimestamps)
       => (emitExc' = "ValueError" /\ handled' = handled)]_vars

C7_Witness ==
    /\ Len(delivered) = 2 /\ Len(handled) = 1
    /\ Last(delivered).args.t = "dict"
    /\ ExtraKeys \subseteq DOMAIN Last(delivered).d
    /\ Last(delivered).d["Message-Timestamp"] = PyStr(Chars("now"))
    /\ emitExc = "ValueError"

\* a record emit hands on: args is a dict and the timestamp parses
Qualifies(record) ==
    /\ record.args.t = "dict"
    /\ ExtraKeys \subseteq DOMAIN record.d
    /\ record.d["Message-Timestamp"] \notin BadTimestamps

C9_NonDictDropped ==
    [][Len(delivered') = Len(delivered) + 1 =>
         /\ Last(delivered').args.t # "dict" =>
              (emitExc' = "none" /\ reads' = {} /\ handled' = handled)
         /\ handled' # handled => Last(delivered').args.t = "dict"]_vars

C9_Witness ==
    /\ Len(delivered) = 2 /\ Len(handled) = 1
    /\ Last(delivered).args.t = "tuple"
    /\ DOMAIN Last(delivered).d = {}
    /\ emitExc = "none" /\ reads = {}

\* text that decodes to text which is itself valid JSON
DoublyEncoded(v) ==
    /\ IsStr(v) /\ json_loads(v).ok
    /\ IsStr(json_loads(v).val) /\ json_loads(json_loads(v).val).ok

\* C10 (as claimed): the conversion is idempotent, so assigning a field its
\* own value, or feeding the fields back to from_rpc, changes nothing.
C10_Idempotent ==
    /\ op.name = "setattr" => msg[op.field] = op.value
    /\ op.name = "refeed" => msg2 = msg

\* C10 (amended): the conversion is idempotent on every value except text
\* that decodes to text which is itself valid JSON; for every other raw value,
\* assigning a field its own value, or feeding the fields back to from_rpc,
\* leaves the field and the classification unchanged.
C10_IdempotentUnlessDoublyEncoded ==
    /\ op.name = "setattr" =>
         (~DoublyEncoded(call.message[op.field]) =>
            /\ msg[op.field] = op.value
            /\ Classification(msg) =
                 Classification([msg EXCEPT ![op.field] = op.value]))
    /\ op.name = "refeed" =>
         ((\A f \in ConvertedFields : ~DoublyEncoded(call.message[f])) =>
            (msg2 = msg /\ Classification(msg2) = Classification(msg)))

C10_Witness ==
    /\ op.name = "setattr" /\ op.field = "params"
    /\ call.message.params = PyStr(Chars("[1]"))
    /\ op.value = PyList(<<PyInt(1)>>)
    /\ msg.params = PyList(<<PyInt(1)>>)

=============================================================================
